---- MODULE Spec2Model ----
(***************************************************************************)
(* A model of the FPL squad optimizer (axelsg/fplopti).                    *)
(*                                                                         *)
(* One optimization request is followed through run_fpl_optimizer of       *)
(* src/app/optimizer_logic.py (impl = "app"): load and prepare the data    *)
(* frame, solve the squad and the starting XI (or, for                     *)
(* best_11_cheap_bench, pre-select the bench and solve the starting XI),   *)
(* and format the report.  The repository keeps an older                   *)
(* run_fpl_optimizer in src/optimizer_logic.py (impl = "root"), which      *)
(* solves squad and starting XI for every strategy.                        *)
(* Where the service runs a second request at the same time, the locals   *)
(* of the request that is not running are kept in `other`.                 *)
(*                                                                         *)
(* Units.  Prices are in tenths of a million (the FPL now_cost), expected  *)
(* points in tenths of a point, ownership in tenths of a percent and the   *)
(* weights in tenths, differential_factor in hundredths; the objective     *)
(* coefficients are therefore exact integers (the code's floating point    *)
(* rounding is not modelled).                                              *)
(*                                                                         *)
(* The CBC solver is exact: a solve is modelled as a nondeterministic      *)
(* choice among all optimal solutions of the integer program the code      *)
(* builds.  A single-column sort_values (quicksort) is modelled as any     *)
(* order consistent with the key.                                          *)
(***************************************************************************)
EXTENDS Integers, Sequences, FiniteSets, TLC

VARIABLES impl, pool, strategy, defensive_weight, offensive_weight,
          differential_factor, min_cheap_players,
          pc, adjusted, squad, cheapest_bench, starting_xi,
          lineup, bench, captain, vice_captain, squad_total_cost, error,
          other, columns

vars == <<impl, pool, strategy, defensive_weight, offensive_weight,
          differential_factor, min_cheap_players,
          pc, adjusted, squad, cheapest_bench, starting_xi,
          lineup, bench, captain, vice_captain, squad_total_cost, error,
          other, columns>>

(***************************************************************************)
(* Program constants                                                       *)
(***************************************************************************)
BUDGET == 1000
TOTAL_SQUAD_PLAYERS == 15
MAX_PLAYERS_PER_CLUB == 3
TOTAL_STARTING_XI_PLAYERS == 11

Positions == <<"GKP", "DEF", "MID", "FWD">>
PositionSet == {"GKP", "DEF", "MID", "FWD"}

SQUAD_POSITIONS == ("GKP" :> 2 @@ "DEF" :> 5 @@ "MID" :> 5 @@ "FWD" :> 3)
\* Mutant: the starting XI needs more forwards than a squad has.
STARTING_XI_POS_MIN_FourForwards == ("GKP" :> 1 @@ "DEF" :> 3 @@ "MID" :> 2 @@ "FWD" :> 4)
STARTING_XI_POS_MIN == ("GKP" :> 1 @@ "DEF" :> 3 @@ "MID" :> 2 @@ "FWD" :> 1)
\* Mutant: both goalkeepers of the squad may start.
STARTING_XI_POS_MAX_TwoGoalkeepers == ("GKP" :> 2 @@ "DEF" :> 5 @@ "MID" :> 5 @@ "FWD" :> 3)
STARTING_XI_POS_MAX == ("GKP" :> 1 @@ "DEF" :> 5 @@ "MID" :> 5 @@ "FWD" :> 3)
CHEAP_PLAYER_THRESHOLDS == ("GKP" :> 40 @@ "DEF" :> 40 @@ "MID" :> 45 @@ "FWD" :> 45)
bench_positions == ("GKP" :> 1 @@ "DEF" :> 2 @@ "MID" :> 2 @@ "FWD" :> 0)

Strategies == {"best_15", "best_11_cheap_bench", "defensive", "offensive",
               "enabling", "differential"}

\* A missing value (NaN / null) of a numeric column.
NaN == 0 - 1

(***************************************************************************)
(* Bounds of the model                                                     *)
(***************************************************************************)
MinPool == 14      \* smallest pool: one forward short of the squad schema
MaxPool == 20      \* largest pool
MaxClubs == 9      \* clubs of the league the pool is drawn from
MaxFwdFactor == 2  \* largest multiplier of the forwards' prices
ResolvePool == 19  \* largest pool of a request that is solved twice
ExactSpare == 3    \* budget players that 15-player data files draw on

(***************************************************************************)
(* The candidate pool (fpl_data.json).  Players 1..15 are the sample       *)
(* players of data_fetcher.get_sample_fpl_data; the others are budget      *)
(* players with availability flags, as the live feed has them.             *)
(***************************************************************************)
P(pos, team, price, xp, status, chance, own) ==
    [position |-> pos, team |-> team, price |-> price, expected_points |-> xp,
     status |-> status, chance_of_playing_this_round |-> chance,
     ownership_percentage |-> own]

Catalogue ==
    << P("GKP", 1,  55, 52, "a", 100, 150),
       P("GKP", 2,  45, 42, "a", 100,  85),
       P("DEF", 1,  70, 61, "a", 100, 220),
       P("DEF", 1,  60, 55, "a", 100, 180),
       P("DEF", 3,  45, 42, "a", 100, 120),
       P("DEF", 4,  40, 38, "a", 100, 160),
       P("DEF", 5,  40, 35, "a", 100,  90),
       P("MID", 1, 130, 85, "a", 100, 450),
       P("MID", 3, 125, 82, "a", 100, 380),
       P("MID", 7,  80, 61, "a", 100, 280),
       P("MID", 6,  50, 42, "a", 100, 150),
       P("MID", 8,  45, 38, "a", 100, 120),
       P("FWD", 3, 150, 92, "a", 100, 550),
       P("FWD", 9,  75, 60, "a", 100, 200),
       P("FWD", 4,  45, 35, "a", 100,  80),
       P("MID", 2,  45, 40, "d",  75,  50),
       P("DEF", 2,  40, 36, "a", NaN,  30),
       P("DEF", 6,  43, 44, "i",   0, NaN),
       P("MID", 2,  47, 48, "d",  50,  20),
       P("DEF", 8,  44, 41, "a", 100,  35),
       P("GKP", 8,  40, NaN, "a", 100,  10),
       P("FWD", 9,  55, 50, "s", NaN,  40) >>

\* The pool of a data file: the first n players of the feed, their clubs
\* folded onto a league of `clubs` clubs and the forwards' prices multiplied
\* by fwdFactor.
MakePool(n, clubs, fwdFactor) ==
    [i \in 1..n |->
        LET c == Catalogue[i]
        IN  [c EXCEPT !.team = ((c.team - 1) % clubs) + 1,
                      !.price = IF c.position = "FWD" THEN c.price * fwdFactor
                                ELSE c.price]]

(***************************************************************************)
(* Helpers on sets of data-frame indices                                   *)
(***************************************************************************)
Index(df) == DOMAIN df

RECURSIVE SumOver(_, _)
SumOver(S, f) ==
    IF S = {} THEN 0
    ELSE LET i == CHOOSE x \in S : TRUE IN f[i] + SumOver(S \ {i}, f)

MaxOf(S) == CHOOSE m \in S : \A x \in S : x <= m

KSubsets(S, k) == {T \in SUBSET S : Cardinality(T) = k}

PosIdx(df, S, pos) == {i \in S : df[i].position = pos}
TeamIdx(df, S, team) == {i \in S : df[i].team = team}
Teams(df) == {df[i].team : i \in Index(df)}
PriceOf(df) == [i \in Index(df) |-> df[i].price]
CountPos(df, S, pos) == Cardinality(PosIdx(df, S, pos))

(***************************************************************************)
(* Score adjustment (run_fpl_optimizer, "Hantera skador och spelstatus").  *)
(* The adjusted value is kept in thousandths of a point:                   *)
(* expected_points (tenths) times the play probability (percent).          *)
(***************************************************************************)
\* Mutant: the adjusted column is not filled, a missing value stays missing.
Adjust_Unfilled(p) ==
    LET injured == p.status \in {"i", "s"}
        chance  == p.chance_of_playing_this_round
        copied  == IF p.expected_points = NaN THEN NaN
                   ELSE p.expected_points * 100
        zeroed  == IF injured THEN 0 ELSE copied
    IN  IF chance # NaN /\ chance < 100 /\ ~injured /\ zeroed # NaN
        THEN (zeroed \div 100) * chance
        ELSE zeroed

Adjust(p) ==
    LET injured == p.status \in {"i", "s"}
        chance  == p.chance_of_playing_this_round
        copied  == IF p.expected_points = NaN THEN NaN
                   ELSE p.expected_points * 100
        zeroed  == IF injured THEN 0 ELSE copied
        scaled  == IF chance # NaN /\ chance < 100 /\ ~injured /\ zeroed # NaN
                   THEN (zeroed \div 100) * chance
                   ELSE zeroed
    IN  IF scaled = NaN THEN 0 ELSE scaled

AdjustAll(df) == [i \in Index(df) |-> Adjust(df[i])]

\* The adjustment of a data frame that has the columns cols: without a
\* status column nobody is zeroed, without a chance_of_playing_this_round
\* column nobody is scaled.
AdjustPresent(df, cols) ==
    [i \in Index(df) |->
        Adjust([df[i] EXCEPT
                  !.status = IF "status" \in cols THEN @ ELSE "a",
                  !.chance_of_playing_this_round =
                      IF "chance_of_playing_this_round" \in cols THEN @ ELSE NaN])]

\* Lines 65-72 outside any try block: the scaling reads df['status'] (a
\* KeyError without that column), and df.get(column, default).fillna(...)
\* calls fillna on the default itself when next_opponent or is_home is
\* absent (an AttributeError).
RaisesOnColumns(cols) ==
    \/ "chance_of_playing_this_round" \in cols /\ "status" \notin cols
    \/ "next_opponent" \notin cols
    \/ "is_home" \notin cols

\* position_counts check: the first position with too few players, or "".
ShortPosition(df) ==
    LET short == {k \in 1..4 :
                     CountPos(df, Index(df), Positions[k]) < SQUAD_POSITIONS[Positions[k]]}
    IN  IF short = {} THEN ""
        ELSE Positions[CHOOSE k \in short : \A j \in short : k <= j]

(***************************************************************************)
(* The squad program (_optimize_traditional_approach, step 1)              *)
(***************************************************************************)
\* Mutant: the ownership column is not read; every player counts as owned
\* by 50%.
Ownership_Unread(p) == 500

\* ownership_percentage after to_numeric(...).fillna(50.0), in tenths.
Ownership(p) ==
    IF p.ownership_percentage = NaN THEN 500 ELSE p.ownership_percentage

\* Mutant: the differential strategy rewards ownership instead of the lack
\* of it.
ObjectiveCoef_OwnershipBonus(df, adj, strat, dw, ow, k, i) ==
    CASE strat = "defensive" ->
            adj[i] * (IF df[i].position \in {"DEF", "GKP"} THEN dw ELSE 10)
      [] strat = "offensive" ->
            adj[i] * (IF df[i].position \in {"MID", "FWD"} THEN ow ELSE 10)
      [] strat = "differential" ->
            10 * (adj[i] + k * Ownership(df[i]))
      [] OTHER -> 10 * adj[i]

\* Mutant: the differential objective subtracts the adjusted points from the
\* ownership bonus.
ObjectiveCoef_PointsSubtracted(df, adj, strat, dw, ow, k, i) ==
    CASE strat = "defensive" ->
            adj[i] * (IF df[i].position \in {"DEF", "GKP"} THEN dw ELSE 10)
      [] strat = "offensive" ->
            adj[i] * (IF df[i].position \in {"MID", "FWD"} THEN ow ELSE 10)
      [] strat = "differential" ->
            10 * (k * (1000 - Ownership(df[i])) - adj[i])
      [] OTHER -> 10 * adj[i]

\* Objective coefficient of player i, times 10000.
ObjectiveCoef(df, adj, strat, dw, ow, k, i) ==
    CASE strat = "defensive" ->
            adj[i] * (IF df[i].position \in {"DEF", "GKP"} THEN dw ELSE 10)
      [] strat = "offensive" ->
            adj[i] * (IF df[i].position \in {"MID", "FWD"} THEN ow ELSE 10)
      [] strat = "differential" ->
            10 * (adj[i] + k * (1000 - Ownership(df[i])))
      [] OTHER -> 10 * adj[i]

ObjectiveFunction(df, adj, strat, dw, ow, k) ==
    [i \in Index(df) |-> ObjectiveCoef(df, adj, strat, dw, ow, k, i)]


\* Mutant: the limit handed in (the budget left after the bench) is ignored.
WithinBudget_FullBudget(df, S, limit) == SumOver(S, PriceOf(df)) <= BUDGET

WithinBudget(df, S, limit) == SumOver(S, PriceOf(df)) <= limit

\* Mutant: the club limit is strict (fewer than 3 of a club).
ClubLimit_Strict(df, S) ==
    \A t \in Teams(df) : Cardinality(TeamIdx(df, S, t)) < MAX_PLAYERS_PER_CLUB

ClubLimit(df, S) ==
    \A t \in Teams(df) : Cardinality(TeamIdx(df, S, t)) <= MAX_PLAYERS_PER_CLUB

IsCheap(p) == p.price <= CHEAP_PLAYER_THRESHOLDS[p.position]

CheapConstraint(df, S, strat, minCheap) ==
    strat = "enabling" =>
        Cardinality({i \in S : IsCheap(df[i])}) >= minCheap

\* Sets with exactly SQUAD_POSITIONS[pos] players of every position
\* (15 players in all).
SchemaSets(df) ==
    {g \cup d \cup m \cup f :
        g \in KSubsets(PosIdx(df, Index(df), "GKP"), SQUAD_POSITIONS["GKP"]),
        d \in KSubsets(PosIdx(df, Index(df), "DEF"), SQUAD_POSITIONS["DEF"]),
        m \in KSubsets(PosIdx(df, Index(df), "MID"), SQUAD_POSITIONS["MID"]),
        f \in KSubsets(PosIdx(df, Index(df), "FWD"), SQUAD_POSITIONS["FWD"])}

FeasibleSquads(df, strat, minCheap) ==
    {S \in SchemaSets(df) :
        /\ Cardinality(S) = TOTAL_SQUAD_PLAYERS
        /\ WithinBudget(df, S, BUDGET)
        /\ ClubLimit(df, S)
        /\ CheapConstraint(df, S, strat, minCheap)}

\* The optimal solutions of "maximize the sum of coef over a set of F".
Optimal(F, coef) ==
    LET value == [S \in F |-> SumOver(S, coef)]
        best  == MaxOf({value[S] : S \in F})
    IN  {S \in F : value[S] = best}

(***************************************************************************)
(* The starting XI program (formation bounds)                              *)
(***************************************************************************)
SizedSubsets(S, lo, hi) ==
    {T \in SUBSET S : Cardinality(T) >= lo /\ Cardinality(T) <= hi}


\* Mutant: the goalkeeper bounds of the starting XI are left out.
FormationSets_NoGoalkeeperBound(df, avail) ==
    LET G == SUBSET PosIdx(df, avail, "GKP")
        D == SizedSubsets(PosIdx(df, avail, "DEF"),
                          STARTING_XI_POS_MIN["DEF"], STARTING_XI_POS_MAX["DEF"])
        M == SizedSubsets(PosIdx(df, avail, "MID"),
                          STARTING_XI_POS_MIN["MID"], STARTING_XI_POS_MAX["MID"])
        F == SizedSubsets(PosIdx(df, avail, "FWD"),
                          STARTING_XI_POS_MIN["FWD"], STARTING_XI_POS_MAX["FWD"])
    IN  UNION {{t[1] \cup t[2] \cup t[3] \cup f :
                   f \in {x \in F : Cardinality(t[1]) + Cardinality(t[2])
                                    + Cardinality(t[3]) + Cardinality(x)
                                    = TOTAL_STARTING_XI_PLAYERS}} :
               t \in G \X D \X M}

FormationSets(df, avail) ==
    LET G == SizedSubsets(PosIdx(df, avail, "GKP"),
                          STARTING_XI_POS_MIN["GKP"], STARTING_XI_POS_MAX["GKP"])
        D == SizedSubsets(PosIdx(df, avail, "DEF"),
                          STARTING_XI_POS_MIN["DEF"], STARTING_XI_POS_MAX["DEF"])
        M == SizedSubsets(PosIdx(df, avail, "MID"),
                          STARTING_XI_POS_MIN["MID"], STARTING_XI_POS_MAX["MID"])
        F == SizedSubsets(PosIdx(df, avail, "FWD"),
                          STARTING_XI_POS_MIN["FWD"], STARTING_XI_POS_MAX["FWD"])
    IN  UNION {{t[1] \cup t[2] \cup t[3] \cup f :
                   f \in {x \in F : Cardinality(t[1]) + Cardinality(t[2])
                                    + Cardinality(t[3]) + Cardinality(x)
                                    = TOTAL_STARTING_XI_PLAYERS}} :
               t \in G \X D \X M}

(***************************************************************************)
(* best_11_cheap_bench (_optimize_best_11_cheap_bench)                     *)
(***************************************************************************)
\* The first `count` rows of the position's players sorted by price.
CheapestOf(df, pos, count) ==
    LET players == PosIdx(df, Index(df), pos)
    IN  {T \in KSubsets(players, count) :
            \A t \in T : \A u \in players \ T : df[t].price <= df[u].price}

\* The possible lists cheapest_bench_players, as sets of indices.
CheapestBenches(df) ==
    {g \cup d \cup m \cup f :
        g \in CheapestOf(df, "GKP", bench_positions["GKP"]),
        d \in CheapestOf(df, "DEF", bench_positions["DEF"]),
        m \in CheapestOf(df, "MID", bench_positions["MID"]),
        f \in CheapestOf(df, "FWD", bench_positions["FWD"])}

RemainingBudget(df, benchSet) == BUDGET - SumOver(benchSet, PriceOf(df))


\* Mutant: the bench players are not counted against the club limit.
ClubLimitWithBench_XIOnly(df, X, benchSet, avail) ==
    \A t \in Teams(df) :
        Cardinality(TeamIdx(df, X \cap avail, t)) <= MAX_PLAYERS_PER_CLUB

ClubLimitWithBench(df, X, benchSet, avail) ==
    \A t \in Teams(df) :
        Cardinality(TeamIdx(df, X \cap avail, t))
            <= MAX_PLAYERS_PER_CLUB - Cardinality(TeamIdx(df, benchSet, t))

FeasibleBest11(df, benchSet) ==
    LET avail == Index(df) \ benchSet
    IN  {X \in FormationSets(df, avail) :
            /\ WithinBudget(df, X, RemainingBudget(df, benchSet))
            /\ ClubLimitWithBench(df, X, benchSet, avail)}

(***************************************************************************)
(* The older optimizer (src/optimizer_logic.py)                            *)
(***************************************************************************)
cheap_player_price_threshold == 50

\* ownership_percentage after to_numeric(...).fillna(100), in tenths.
RootOwnership(p) ==
    IF p.ownership_percentage = NaN THEN 1000 ELSE p.ownership_percentage

RootObjectiveCoef(df, adj, strat, dw, ow, k, i) ==
    CASE strat = "defensive" ->
            adj[i] * (IF df[i].position \in {"DEF", "GKP"} THEN dw ELSE 10)
      [] strat = "offensive" ->
            adj[i] * (IF df[i].position \in {"MID", "FWD"} THEN ow ELSE 10)
      [] strat = "differential" ->
            10 * (adj[i] + k * (1000 - RootOwnership(df[i])))
      [] OTHER -> 10 * adj[i]

RootObjectiveFunction(df, adj, strat, dw, ow, k) ==
    [i \in Index(df) |-> RootObjectiveCoef(df, adj, strat, dw, ow, k, i)]

RootCheapConstraint(df, S, strat, minCheap) ==
    strat \in {"best_11_cheap_bench", "enabling"} =>
        Cardinality({i \in S : df[i].price <= cheap_player_price_threshold})
            >= minCheap

RootFeasibleSquads(df, strat, minCheap) ==
    {S \in SchemaSets(df) :
        /\ Cardinality(S) = TOTAL_SQUAD_PLAYERS
        /\ WithinBudget(df, S, BUDGET)
        /\ ClubLimit(df, S)
        /\ RootCheapConstraint(df, S, strat, minCheap)}

(***************************************************************************)
(* Formatting of the report (_format_results)                              *)
(***************************************************************************)
\* Mutant: the position column is sorted as text (DEF, FWD, GKP, MID).
PosRank_Alphabetical(pos) ==
    CHOOSE k \in 1..4 : <<"DEF", "FWD", "GKP", "MID">>[k] = pos

\* The rank of a position in the ordered categories of the position column.
PosRank(pos) == CHOOSE k \in 1..4 : Positions[k] = pos

RECURSIVE AscSeq(_)
\* The rows of a set of indices in data-frame order.
AscSeq(S) ==
    IF S = {} THEN <<>>
    ELSE LET lo == CHOOSE x \in S : \A y \in S : x <= y
         IN  <<lo>> \o AscSeq(S \ {lo})

Range(s) == {s[k] : k \in DOMAIN s}

\* sort_values(by=['position', 'adjusted_expected_points'],
\*             ascending=[True, False]): a stable lexicographic sort.
SortStartingXI(df, adj, X) ==
    SortSeq(AscSeq(X),
            LAMBDA a, b :
                \/ PosRank(df[a].position) < PosRank(df[b].position)
                \/ /\ df[a].position = df[b].position
                   /\ \/ adj[a] > adj[b]
                      \/ adj[a] = adj[b] /\ a < b)

\* The orders sort_values(by='adjusted_expected_points', ascending=False)
\* may give the rows S.
DescendingOrders(S, adj) ==
    {s \in [1..Cardinality(S) -> S] :
        /\ Range(s) = S
        /\ \A k \in 1..(Cardinality(S) - 1) : adj[s[k]] >= adj[s[k + 1]]}


\* Mutant: the whole bench is sorted by points, the goalkeeper among the rest.
FinalBenches_PointsOnly(df, adj, B) == DescendingOrders(B, adj)

\* pd.concat([bench_outfield, bench_gkp])
FinalBenches(df, adj, B) ==
    LET outfield == {i \in B : df[i].position # "GKP"}
        gkp      == {i \in B : df[i].position = "GKP"}
    IN  {s \o AscSeq(gkp) : s \in DescendingOrders(outfield, adj)}


\* Mutant: the starting XI is sorted ascending before iloc[0] and iloc[1].
Captaincies_Ascending(adj, X) ==
    {cv \in X \X X :
        /\ cv[1] # cv[2]
        /\ \A o \in X : adj[cv[1]] <= adj[o]
        /\ \A o \in X \ {cv[1]} : adj[cv[2]] <= adj[o]}

\* iloc[0] and iloc[1] of the starting XI sorted by descending adjusted value.
Captaincies(adj, X) ==
    {cv \in X \X X :
        /\ cv[1] # cv[2]
        /\ \A o \in X : adj[cv[1]] >= adj[o]
        /\ \A o \in X \ {cv[1]} : adj[cv[2]] >= adj[o]}

\* Step 3 of the older optimizer: the bench, with its fallback for a bench
\* that is not one goalkeeper and three outfield players.
BenchPosOrder(pos) ==
    CASE pos = "DEF" -> 1 [] pos = "MID" -> 2 [] pos = "FWD" -> 3 [] pos = "GKP" -> 4

FirstRows(s, k) == SubSeq(s, 1, IF Len(s) < k THEN Len(s) ELSE k)

RootFinalBenches(df, adj, B) ==
    LET outfield == {i \in B : df[i].position # "GKP"}
        gkp      == {i \in B : df[i].position = "GKP"}
        resorted == SortSeq(AscSeq(B),
                        LAMBDA a, b :
                            \/ BenchPosOrder(df[a].position) < BenchPosOrder(df[b].position)
                            \/ /\ df[a].position = df[b].position
                               /\ \/ adj[a] > adj[b]
                                  \/ adj[a] = adj[b] /\ a < b)
    IN  IF Cardinality(gkp) = 1 /\ Cardinality(outfield) = 3
        THEN {s \o AscSeq(gkp) : s \in DescendingOrders(outfield, adj)}
        ELSE {FirstRows(SelectSeq(resorted, LAMBDA i : df[i].position # "GKP"), 3)
              \o FirstRows(SelectSeq(resorted, LAMBDA i : df[i].position = "GKP"), 1)}

(***************************************************************************)
(* The request: data file, strategy and tuning values                      *)
(***************************************************************************)
DefaultWeight == 12
DefaultFactor == 5
DefaultMinCheap == 4

Weights == {DefaultWeight, 30}
Factors == {DefaultFactor, 20}
CheapCounts == {DefaultMinCheap, 8}

\* The service handles this request alone: no second request is waiting.
Alone == [id |-> 0]

\* The columns of a player in the data file that the optimizers read (the
\* ownership column apart), and those run_fpl_optimizer requires.
Columns ==
    {"position", "expected_points", "price", "team", "name", "status",
     "chance_of_playing_this_round", "next_opponent", "is_home"}
required_columns == {"position", "expected_points", "price", "team", "name"}

Init ==
    /\ impl \in {"app", "root"}
    /\ \E n \in MinPool..MaxPool, clubs \in {1, MaxClubs}, ff \in 1..MaxFwdFactor :
          pool = MakePool(n, clubs, ff)
    /\ strategy \in Strategies
    /\ defensive_weight \in
          IF strategy = "defensive" THEN Weights ELSE {DefaultWeight}
    /\ offensive_weight \in
          IF strategy = "offensive" THEN Weights ELSE {DefaultWeight}
    /\ differential_factor \in
          IF strategy = "differential" THEN Factors ELSE {DefaultFactor}
    /\ min_cheap_players \in
          IF strategy = "enabling" THEN CheapCounts ELSE {DefaultMinCheap}
    /\ pc = "start"
    /\ adjusted = <<>>
    /\ squad = {}
    /\ cheapest_bench = {}
    /\ starting_xi = {}
    /\ lineup = <<>>
    /\ bench = <<>>
    /\ captain = 0
    /\ vice_captain = 0
    /\ squad_total_cost = 0
    /\ error = ""
    /\ other = Alone
    /\ columns = Columns

request == <<impl, pool, strategy, defensive_weight, offensive_weight,
             differential_factor, min_cheap_players>>
report == <<lineup, bench, captain, vice_captain, squad_total_cost>>

\* Mutant: the scores are adjusted in place, the expected_points column
\* takes the adjusted values.
Prepare_InPlace ==
    /\ pc = "start"
    /\ impl = "app"
    /\ IF ~(required_columns \subseteq columns)
       THEN pc' = "error" /\ error' = "missing_columns" /\ adjusted' = adjusted /\ pool' = pool
       ELSE IF RaisesOnColumns(columns)
       THEN pc' = "raised" /\ error' = error /\ adjusted' = adjusted /\ pool' = pool
       ELSE /\ adjusted' = AdjustPresent(pool, columns)
            /\ pool' = [i \in Index(pool) |->
                   [pool[i] EXCEPT !.expected_points = Adjust(pool[i]) \div 100]]
            /\ IF ShortPosition(pool) # ""
               THEN pc' = "error" /\ error' = "insufficient_players"
               ELSE pc' = "prepared" /\ error' = error
    /\ UNCHANGED <<columns, other, impl, strategy, defensive_weight, offensive_weight,
                   differential_factor, min_cheap_players,
                   squad, cheapest_bench, starting_xi, report>>

\* Lines 48-78: check the required columns, adjust the scores (an optional
\* column that is absent may end the call in an exception), then check the
\* players per position.
Prepare ==
    /\ pc = "start"
    /\ impl = "app"
    /\ IF ~(required_columns \subseteq columns)
       THEN pc' = "error" /\ error' = "missing_columns" /\ adjusted' = adjusted
       ELSE IF RaisesOnColumns(columns)
       THEN pc' = "raised" /\ error' = error /\ adjusted' = adjusted
       ELSE /\ adjusted' = AdjustPresent(pool, columns)
            /\ IF ShortPosition(pool) # ""
               THEN pc' = "error" /\ error' = "insufficient_players"
               ELSE pc' = "prepared" /\ error' = error
    /\ UNCHANGED <<columns, other, request, squad, cheapest_bench, starting_xi, report>>

\* Mutant: an infeasible squad program is recorded but the request goes on
\* to the starting XI.
SolveSquad_NoReturn ==
    /\ pc = "prepared"
    /\ impl = "app"
    /\ strategy # "best_11_cheap_bench"
    /\ LET feasible == FeasibleSquads(pool, strategy, min_cheap_players)
           coef == ObjectiveFunction(pool, adjusted, strategy, defensive_weight,
                                     offensive_weight, differential_factor)
       IN  IF feasible = {}
           THEN /\ pc' = "squad"
                /\ error' = "squad_not_optimal"
                /\ squad' = squad
           ELSE /\ squad' \in Optimal(feasible, coef)
                /\ pc' = "squad"
                /\ error' = error
    /\ UNCHANGED <<columns, other, request, adjusted, cheapest_bench, starting_xi, report>>

\* _optimize_traditional_approach, step 1.
SolveSquad ==
    /\ pc = "prepared"
    /\ impl = "app"
    /\ strategy # "best_11_cheap_bench"
    /\ LET feasible == FeasibleSquads(pool, strategy, min_cheap_players)
           coef == ObjectiveFunction(pool, adjusted, strategy, defensive_weight,
                                     offensive_weight, differential_factor)
       IN  IF feasible = {}
           THEN /\ pc' = "error"
                /\ error' = "squad_not_optimal"
                /\ squad' = squad
           ELSE /\ squad' \in Optimal(feasible, coef)
                /\ pc' = "squad"
                /\ error' = error
    /\ UNCHANGED <<columns, other, request, adjusted, cheapest_bench, starting_xi, report>>

\* Mutant: the starting XI program maximizes the price of the eleven
\* instead of its adjusted points.
SolveStartingXI_MaximizePrice ==
    /\ pc = "squad"
    /\ LET feasible == FormationSets(pool, squad)
       IN  IF feasible = {}
           THEN /\ pc' = "error"
                /\ error' = "xi_not_optimal"
                /\ starting_xi' = starting_xi
           ELSE /\ starting_xi' \in Optimal(feasible, PriceOf(pool))
                /\ pc' = "xi"
                /\ error' = error
    /\ UNCHANGED <<columns, other, request, adjusted, squad, cheapest_bench, report>>

\* _optimize_traditional_approach, step 2 (the older optimizer's "Steg 2" is
\* the same program).
SolveStartingXI ==
    /\ pc = "squad"
    /\ LET feasible == FormationSets(pool, squad)
       IN  IF feasible = {}
           THEN /\ pc' = "error"
                /\ error' = "xi_not_optimal"
                /\ starting_xi' = starting_xi
           ELSE /\ starting_xi' \in Optimal(feasible, adjusted)
                /\ pc' = "xi"
                /\ error' = error
    /\ UNCHANGED <<columns, other, request, adjusted, squad, cheapest_bench, report>>

\* _optimize_best_11_cheap_bench, step 1: the cheapest bench players.
SelectBench ==
    /\ pc = "prepared"
    /\ impl = "app"
    /\ strategy = "best_11_cheap_bench"
    /\ IF \E pos \in PositionSet :
             CountPos(pool, Index(pool), pos) < bench_positions[pos]
       THEN /\ pc' = "error"
            /\ error' = "bench_position"
            /\ cheapest_bench' = cheapest_bench
       ELSE /\ cheapest_bench' \in CheapestBenches(pool)
            /\ pc' = "bench"
            /\ error' = error
    /\ UNCHANGED <<columns, other, request, adjusted, squad, starting_xi, report>>

\* Mutant: the starting XI program maximizes the price of the eleven
\* instead of its adjusted points.
SolveBest11_MaximizePrice ==
    /\ pc = "bench"
    /\ LET feasible == FeasibleBest11(pool, cheapest_bench)
       IN  IF feasible = {}
           THEN /\ pc' = "error"
                /\ error' = "best11_not_optimal"
                /\ UNCHANGED <<starting_xi, squad>>
           ELSE /\ starting_xi' \in Optimal(feasible, PriceOf(pool))
                /\ squad' = starting_xi' \cup cheapest_bench
                /\ pc' = "xi"
                /\ error' = error
    /\ UNCHANGED <<columns, other, request, adjusted, cheapest_bench, report>>

\* _optimize_best_11_cheap_bench, step 2: the starting XI on what is left;
\* the squad is the starting XI and the bench players put together.
SolveBest11 ==
    /\ pc = "bench"
    /\ LET feasible == FeasibleBest11(pool, cheapest_bench)
       IN  IF feasible = {}
           THEN /\ pc' = "error"
                /\ error' = "best11_not_optimal"
                /\ UNCHANGED <<starting_xi, squad>>
           ELSE /\ starting_xi' \in Optimal(feasible, adjusted)
                /\ squad' = starting_xi' \cup cheapest_bench
                /\ pc' = "xi"
                /\ error' = error
    /\ UNCHANGED <<columns, other, request, adjusted, cheapest_bench, report>>

\* The bench handed to _format_results.
BenchRows ==
    IF impl = "app" /\ strategy = "best_11_cheap_bench" THEN cheapest_bench
    ELSE squad \ starting_xi

FormatResults ==
    /\ pc = "xi"
    /\ impl = "app"
    /\ lineup' = SortStartingXI(pool, adjusted, starting_xi)
    /\ bench' \in FinalBenches(pool, adjusted, BenchRows)
    /\ \E cv \in Captaincies(adjusted, starting_xi) :
          captain' = cv[1] /\ vice_captain' = cv[2]
    /\ squad_total_cost' = SumOver(squad, PriceOf(pool))
    /\ pc' = "done"
    /\ UNCHANGED <<columns, other, request, adjusted, squad, cheapest_bench, starting_xi, error>>

\* The older optimizer, lines 62-78: adjust the scores (no validation; a
\* column the adjustment reads and does not find is a KeyError).
RootPrepare ==
    /\ pc = "start"
    /\ impl = "root"
    /\ IF {"position", "expected_points", "status",
           "chance_of_playing_this_round"} \subseteq columns
       THEN adjusted' = AdjustAll(pool) /\ pc' = "prepared"
       ELSE adjusted' = adjusted /\ pc' = "raised"
    /\ UNCHANGED <<columns, other, request, squad, cheapest_bench, starting_xi, report, error>>

\* The older optimizer, step 1 (every strategy; building the constraints
\* without a price or team column is a KeyError).
RootSolveSquad ==
    /\ pc = "prepared"
    /\ impl = "root"
    /\ LET feasible == RootFeasibleSquads(pool, strategy, min_cheap_players)
           coef == RootObjectiveFunction(pool, adjusted, strategy, defensive_weight,
                                         offensive_weight, differential_factor)
       IN  IF ~({"price", "team"} \subseteq columns)
           THEN /\ pc' = "raised"
                /\ error' = error
                /\ squad' = squad
           ELSE IF feasible = {}
           THEN /\ pc' = "error"
                /\ error' = "squad_not_optimal"
                /\ squad' = squad
           ELSE /\ squad' \in Optimal(feasible, coef)
                /\ pc' = "squad"
                /\ error' = error
    /\ UNCHANGED <<columns, other, request, adjusted, cheapest_bench, starting_xi, report>>

\* The older optimizer, step 3 and the result object (whose rows read the
\* name column: a KeyError without it).
RootFormatResults ==
    /\ pc = "xi"
    /\ impl = "root"
    /\ IF "name" \in columns
       THEN /\ lineup' = SortStartingXI(pool, adjusted, starting_xi)
            /\ bench' \in RootFinalBenches(pool, adjusted, squad \ starting_xi)
            /\ \E cv \in Captaincies(adjusted, starting_xi) :
                  captain' = cv[1] /\ vice_captain' = cv[2]
            /\ squad_total_cost' = SumOver(squad, PriceOf(pool))
            /\ pc' = "done"
       ELSE /\ pc' = "raised"
            /\ UNCHANGED report
    /\ UNCHANGED <<columns, other, request, adjusted, squad, cheapest_bench, starting_xi, error>>

Next ==
    \/ Prepare
    \/ SolveSquad
    \/ SolveStartingXI
    \/ SelectBench
    \/ SolveBest11
    \/ FormatResults
    \/ RootPrepare
    \/ RootSolveSquad
    \/ RootFormatResults

Spec == Init /\ [][Next]_vars

(***************************************************************************)
(* Further data files.  Start(df) is a request on the data file df, any    *)
(* optimizer, strategy and tuning values.                                  *)
(***************************************************************************)
Start(df) ==
    /\ impl \in {"app", "root"}
    /\ pool = df
    /\ strategy \in Strategies
    /\ defensive_weight \in
          IF strategy = "defensive" THEN Weights ELSE {DefaultWeight}
    /\ offensive_weight \in
          IF strategy = "offensive" THEN Weights ELSE {DefaultWeight}
    /\ differential_factor \in
          IF strategy = "differential" THEN Factors ELSE {DefaultFactor}
    /\ min_cheap_players \in
          IF strategy = "enabling" THEN CheapCounts ELSE {DefaultMinCheap}
    /\ pc = "start"
    /\ adjusted = <<>>
    /\ squad = {}
    /\ cheapest_bench = {}
    /\ starting_xi = {}
    /\ lineup = <<>>
    /\ bench = <<>>
    /\ captain = 0
    /\ vice_captain = 0
    /\ squad_total_cost = 0
    /\ error = ""
    /\ other = Alone
    /\ columns = Columns

\* Requests on the data file that holds the whole feed.
FeedInit == Start(MakePool(Len(Catalogue), MaxClubs, 1))

FeedSpec == FeedInit /\ [][Next]_vars

\* The feed raises the expected points of player i by d tenths.
RaisedPool(df, i, d) == [df EXCEPT ![i].expected_points = @ + d]

\* The objective values of the feasible squads of the squad program posed
\* on the data file df (the optimizer, strategy and tuning values at hand).
SquadValues(df) ==
    LET adj == AdjustAll(df)
        feasible == IF impl = "app"
                    THEN FeasibleSquads(df, strategy, min_cheap_players)
                    ELSE RootFeasibleSquads(df, strategy, min_cheap_players)
        coef == IF impl = "app"
                THEN ObjectiveFunction(df, adj, strategy, defensive_weight,
                                       offensive_weight, differential_factor)
                ELSE RootObjectiveFunction(df, adj, strategy, defensive_weight,
                                           offensive_weight, differential_factor)
    IN  {SumOver(S, coef) : S \in feasible}

\* Requests whose squad program is solved again after a raise.
ResolveInit ==
    \E n \in (ResolvePool - 1)..ResolvePool : Start(MakePool(n, MaxClubs, 1))

ResolveSpec == ResolveInit /\ [][Next]_vars

\* The data file holding the players S of the feed df, in feed order.
SubPool(df, S) == [k \in 1..Cardinality(S) |-> df[AscSeq(S)[k]]]

\* The number of sample players of the feed.
SamplePlayers == 15

\* The sample players and the last ExactSpare budget players of the feed.
ExactFeed ==
    LET feed == MakePool(Len(Catalogue), MaxClubs, 1)
    IN  SubPool(feed, (1..SamplePlayers)
                      \cup ((Len(feed) - ExactSpare + 1)..Len(feed)))

\* best_15 requests on the data files that hold exactly 2 GKP, 5 DEF, 5 MID
\* and 3 FWD of these players.
ExactInit ==
    \E S \in SchemaSets(ExactFeed) :
        /\ Start(SubPool(ExactFeed, S))
        /\ strategy = "best_15"

\* The steps of a request that solves the squad program.
SquadNext ==
    \/ Prepare
    \/ SolveSquad
    \/ SolveStartingXI
    \/ FormatResults
    \/ RootPrepare
    \/ RootSolveSquad
    \/ RootFormatResults

ExactSpec == ExactInit /\ [][SquadNext]_vars

\* The data file MakePool(n, MaxClubs, 1) in which player i is owned by 50%
\* of the managers and is followed by a player owned by 5% who is equal to
\* player i in every other column.
TwinPool(n, i) ==
    LET df == MakePool(n, MaxClubs, 1)
    IN  Append([df EXCEPT ![i].ownership_percentage = 500],
               [df[i] EXCEPT !.ownership_percentage = 50])

\* differential_factor over its range: none, the default and the largest.
TwinFactors == {0, DefaultFactor, 20}

\* differential requests on the data files with such a pair of players.
TwinInit ==
    /\ impl \in {"app", "root"}
    /\ \E n \in (MaxPool - 2)..(MaxPool - 1) : \E i \in 1..n :
          pool = TwinPool(n, i)
    /\ strategy = "differential"
    /\ defensive_weight = DefaultWeight
    /\ offensive_weight = DefaultWeight
    /\ differential_factor \in TwinFactors
    /\ min_cheap_players = DefaultMinCheap
    /\ pc = "start"
    /\ adjusted = <<>>
    /\ squad = {}
    /\ cheapest_bench = {}
    /\ starting_xi = {}
    /\ lineup = <<>>
    /\ bench = <<>>
    /\ captain = 0
    /\ vice_captain = 0
    /\ squad_total_cost = 0
    /\ error = ""
    /\ other = Alone
    /\ columns = Columns

TwinSpec == TwinInit /\ [][SquadNext]_vars

\* The values a player's status, chance_of_playing_this_round and
\* expected_points columns are drawn from (the feed's flags are available,
\* doubtful, injured, suspended and unavailable).
Statuses == {"a", "d", "i", "s", "u"}
Chances == {NaN, 0, 25, 50, 75, 100}
RawPoints == {NaN, 0, 42, 87}

\* The sample players followed by a defender with the given columns.
AdjustPool(status, chance, xp) ==
    Append(MakePool(SamplePlayers, MaxClubs, 1),
           P("DEF", 2, 40, xp, status, chance, 30))

\* best_15 requests on these data files.
AdjustInit ==
    /\ \E status \in Statuses, chance \in Chances, xp \in RawPoints :
          Start(AdjustPool(status, chance, xp))
    /\ strategy = "best_15"

\* The steps that adjust the scores.
AdjustNext ==
    \/ Prepare
    \/ RootPrepare

AdjustSpec == AdjustInit /\ [][AdjustNext]_vars

\* The score adjustment (lines 59-68) run once more on the working copy of
\* a prepared request: the adjusted column is copied afresh from
\* expected_points and adjusted again.
Readjust ==
    /\ pc = "prepared"
    /\ adjusted' = AdjustAll(pool)
    /\ pc' = "readjusted"
    /\ UNCHANGED <<columns, other, request, squad, cheapest_bench, starting_xi, report, error>>

\* The steps that adjust the scores, once and once more.
FrameNext ==
    \/ Prepare
    \/ RootPrepare
    \/ Readjust

FrameSpec == AdjustInit /\ [][FrameNext]_vars

(***************************************************************************)
(* Two requests of one service.  Each call of run_fpl_optimizer reads the  *)
(* data file into a data frame of its own and keeps everything it computes *)
(* in local variables; the worker threads of the service share the data    *)
(* file only.  `other` holds the locals of the request that is not         *)
(* running; the steps above are those of the running request.              *)
(***************************************************************************)
\* The locals of the running request, kept under the number i.
Locals(i) ==
    [id |-> i, strategy |-> strategy,
     defensive_weight |-> defensive_weight,
     offensive_weight |-> offensive_weight,
     differential_factor |-> differential_factor,
     min_cheap_players |-> min_cheap_players,
     pc |-> pc, adjusted |-> adjusted, squad |-> squad,
     cheapest_bench |-> cheapest_bench, starting_xi |-> starting_xi,
     lineup |-> lineup, bench |-> bench, captain |-> captain,
     vice_captain |-> vice_captain, squad_total_cost |-> squad_total_cost,
     error |-> error]

\* Mutant: the chosen squad is kept in one place for both requests.
Switch_SharedSquad ==
    /\ other # Alone
    /\ other' = Locals(3 - other.id)
    /\ strategy' = other.strategy
    /\ defensive_weight' = other.defensive_weight
    /\ offensive_weight' = other.offensive_weight
    /\ differential_factor' = other.differential_factor
    /\ min_cheap_players' = other.min_cheap_players
    /\ pc' = other.pc
    /\ adjusted' = other.adjusted
    /\ squad' = squad
    /\ cheapest_bench' = other.cheapest_bench
    /\ starting_xi' = other.starting_xi
    /\ lineup' = other.lineup
    /\ bench' = other.bench
    /\ captain' = other.captain
    /\ vice_captain' = other.vice_captain
    /\ squad_total_cost' = other.squad_total_cost
    /\ error' = other.error
    /\ UNCHANGED <<impl, pool, columns>>

\* The scheduler takes the running request off its thread and runs the
\* other one; the data file stays as it is.
Switch ==
    /\ other # Alone
    /\ other' = Locals(3 - other.id)
    /\ strategy' = other.strategy
    /\ defensive_weight' = other.defensive_weight
    /\ offensive_weight' = other.offensive_weight
    /\ differential_factor' = other.differential_factor
    /\ min_cheap_players' = other.min_cheap_players
    /\ pc' = other.pc
    /\ adjusted' = other.adjusted
    /\ squad' = other.squad
    /\ cheapest_bench' = other.cheapest_bench
    /\ starting_xi' = other.starting_xi
    /\ lineup' = other.lineup
    /\ bench' = other.bench
    /\ captain' = other.captain
    /\ vice_captain' = other.vice_captain
    /\ squad_total_cost' = other.squad_total_cost
    /\ error' = other.error
    /\ UNCHANGED <<impl, pool, columns>>

\* Two requests of different strategies on one data file, the tuning values
\* at their defaults, request 1 running and request 2 not yet started.
ConcurrentInit ==
    \E i \in {"app", "root"}, n \in {MinPool + 3},
       s1 \in Strategies, s2 \in Strategies :
        /\ s1 # s2
        /\ impl = i
        /\ pool = MakePool(n, MaxClubs, 1)
        /\ strategy = s1
        /\ defensive_weight = DefaultWeight
        /\ offensive_weight = DefaultWeight
        /\ differential_factor = DefaultFactor
        /\ min_cheap_players = DefaultMinCheap
        /\ pc = "start"
        /\ adjusted = <<>>
        /\ squad = {}
        /\ cheapest_bench = {}
        /\ starting_xi = {}
        /\ lineup = <<>>
        /\ bench = <<>>
        /\ captain = 0
        /\ vice_captain = 0
        /\ squad_total_cost = 0
        /\ error = ""
        /\ other = [Locals(2) EXCEPT !.strategy = s2]
        /\ columns = Columns

ConcurrentNext ==
    \/ Next
    \/ Switch

ConcurrentSpec == ConcurrentInit /\ [][ConcurrentNext]_vars

\* A request: optimizer, data file, strategy and tuning values as given,
\* nothing computed yet.
Request(i, df, strat, dw, ow, k, mc) ==
    /\ impl = i
    /\ pool = df
    /\ strategy = strat
    /\ defensive_weight = dw
    /\ offensive_weight = ow
    /\ differential_factor = k
    /\ min_cheap_players = mc
    /\ pc = "start"
    /\ adjusted = <<>>
    /\ squad = {}
    /\ cheapest_bench = {}
    /\ starting_xi = {}
    /\ lineup = <<>>
    /\ bench = <<>>
    /\ captain = 0
    /\ vice_captain = 0
    /\ squad_total_cost = 0
    /\ error = ""
    /\ other = Alone
    /\ columns = Columns

\* A strategy name that is none of the six.
OtherStrategy == "balanced"

\* Requests with any strategy name, the tuning values at their defaults.
NameInit ==
    \E i \in {"app", "root"}, n \in MinPool..MaxPool,
       strat \in Strategies \cup {OtherStrategy} :
        Request(i, MakePool(n, MaxClubs, 1), strat, DefaultWeight,
                DefaultWeight, DefaultFactor, DefaultMinCheap)

NameSpec == NameInit /\ [][Next]_vars

\* Tuning values outside the ranges [1.0, 3.0], [0.0, 0.2] and [1, 8].
WeightsOutside == {5, 40}
FactorsOutside == {0 - 5, 50}
CheapCountsOutside == {0, 9}

\* Requests of the four strategies with a tuning value, the value of the
\* strategy at hand outside its range and the others at their defaults.
RangeInit ==
    \E i \in {"app", "root"}, n \in MinPool..MaxPool :
        LET df == MakePool(n, MaxClubs, 1)
        IN  \/ \E dw \in WeightsOutside :
                  Request(i, df, "defensive", dw, DefaultWeight,
                          DefaultFactor, DefaultMinCheap)
            \/ \E ow \in WeightsOutside :
                  Request(i, df, "offensive", DefaultWeight, ow,
                          DefaultFactor, DefaultMinCheap)
            \/ \E k \in FactorsOutside :
                  Request(i, df, "differential", DefaultWeight, DefaultWeight,
                          k, DefaultMinCheap)
            \/ \E mc \in CheapCountsOutside :
                  Request(i, df, "enabling", DefaultWeight, DefaultWeight,
                          DefaultFactor, mc)

RangeSpec == RangeInit /\ [][SquadNext]_vars

\* Data files that lack up to MaxAbsent of the columns, every strategy, the
\* tuning values at their defaults.
MaxAbsent == 2

ColumnsInit ==
    \E i \in {"app", "root"}, strat \in Strategies, absent \in SUBSET Columns :
        /\ Cardinality(absent) <= MaxAbsent
        /\ impl = i
        /\ pool = MakePool(MinPool + 3, MaxClubs, 1)
        /\ strategy = strat
        /\ defensive_weight = DefaultWeight
        /\ offensive_weight = DefaultWeight
        /\ differential_factor = DefaultFactor
        /\ min_cheap_players = DefaultMinCheap
        /\ pc = "start"
        /\ adjusted = <<>>
        /\ squad = {}
        /\ cheapest_bench = {}
        /\ starting_xi = {}
        /\ lineup = <<>>
        /\ bench = <<>>
        /\ captain = 0
        /\ vice_captain = 0
        /\ squad_total_cost = 0
        /\ error = ""
        /\ other = Alone
        /\ columns = Columns \ absent

ColumnsSpec == ColumnsInit /\ [][Next]_vars

(***************************************************************************)
(* Properties of the report                                                *)
(***************************************************************************)
Returned == pc = "done"
CheapBenchPath == impl = "app" /\ strategy = "best_11_cheap_bench"

\* The squad of a report: the returned starting XI together with the bench.
ReportedSquad == lineup \o bench
Members(s) == {s[k] : k \in DOMAIN s}
NoRepeats(s) == \A j, k \in DOMAIN s : j # k => s[j] # s[k]
CountIn(s, pos) == Cardinality({k \in DOMAIN s : pool[s[k]].position = pos})
ClubCountIn(s, t) == Cardinality({k \in DOMAIN s : pool[s[k]].team = t})

RECURSIVE PriceOfSeq(_)
PriceOfSeq(s) ==
    IF s = <<>> THEN 0 ELSE pool[s[1]].price + PriceOfSeq(Tail(s))

\* C1: whenever a report is returned, the squad (starting XI together with
\* the bench) has exactly 15 players: 2 GKP, 5 DEF, 5 MID and 3 FWD.
C1_SquadSchema ==
    Returned =>
        /\ Len(ReportedSquad) = 15
        /\ NoRepeats(ReportedSquad)
        /\ CountIn(ReportedSquad, "GKP") = 2
        /\ CountIn(ReportedSquad, "DEF") = 5
        /\ CountIn(ReportedSquad, "MID") = 5
        /\ CountIn(ReportedSquad, "FWD") = 3

\* C2: whenever a report is returned, the prices of the starting XI and the
\* bench sum to at most the budget of 100.0.
C2_WithinBudget ==
    Returned =>
        /\ PriceOfSeq(lineup) + PriceOfSeq(bench) <= 1000
        /\ squad_total_cost <= 1000

\* C2 witness: a best_11_cheap_bench report in which the budget left after
\* the bench binds: a formation-valid eleven with more points, within the
\* club limits, costs more than what the bench leaves.
C2_Witness ==
    /\ Returned
    /\ CheapBenchPath
    /\ LET avail == Index(pool) \ cheapest_bench
       IN  \E X \in FormationSets(pool, avail) :
              /\ ClubLimitWithBench(pool, X, cheapest_bench, avail)
              /\ SumOver(X, adjusted) > SumOver(starting_xi, adjusted)
              /\ SumOver(X, PriceOf(pool)) + SumOver(cheapest_bench, PriceOf(pool)) > 1000
              /\ SumOver(X, PriceOf(pool)) <= 1000

\* C3: whenever a report is returned no club has more than 3 players in the
\* starting XI and bench together; and a pre-selected bench with more than
\* 3 players of one club never leads to a starting XI or a report.
C3_ClubLimit ==
    /\ Returned => \A t \in Teams(pool) : ClubCountIn(ReportedSquad, t) <= 3
    /\ (CheapBenchPath /\ \E t \in Teams(pool) :
                             Cardinality(TeamIdx(pool, cheapest_bench, t)) > 3)
          => pc \in {"bench", "error"}

\* C3 witness: a best_11_cheap_bench report in which the bench players
\* count: an eleven with more points fits the formation, the budget left and
\* the club limit of the eleven alone, but not the limit with the bench.
C3_Witness ==
    /\ Returned
    /\ CheapBenchPath
    /\ LET avail == Index(pool) \ cheapest_bench
       IN  \E X \in FormationSets(pool, avail) :
              /\ SumOver(X, adjusted) > SumOver(starting_xi, adjusted)
              /\ SumOver(X, PriceOf(pool)) + SumOver(cheapest_bench, PriceOf(pool)) <= 1000
              /\ \A t \in Teams(pool) : Cardinality(TeamIdx(pool, X, t)) <= 3
              /\ \E t \in Teams(pool) :
                    Cardinality(TeamIdx(pool, X \cup cheapest_bench, t)) > 3

\* C4: whenever a report is returned the starting XI is a subset of the
\* squad, has exactly 11 players, and has 1 GKP, 3 to 5 DEF, 2 to 5 MID and
\* 1 to 3 FWD.
C4_StartingXI ==
    Returned =>
        /\ Members(lineup) \subseteq squad
        /\ Len(lineup) = 11
        /\ NoRepeats(lineup)
        /\ CountIn(lineup, "GKP") = 1
        /\ CountIn(lineup, "DEF") >= 3 /\ CountIn(lineup, "DEF") <= 5
        /\ CountIn(lineup, "MID") >= 2 /\ CountIn(lineup, "MID") <= 5
        /\ CountIn(lineup, "FWD") >= 1 /\ CountIn(lineup, "FWD") <= 3

\* C4 witness: a report whose benched goalkeeper has more points than a
\* starting outfield player (only the formation keeps him out).
C4_Witness ==
    /\ Returned
    /\ \E g \in squad \ Members(lineup) :
          /\ pool[g].position = "GKP"
          /\ \E k \in DOMAIN lineup : adjusted[lineup[k]] < adjusted[g]

\* C5: whenever a report is returned the bench is exactly the squad members
\* not in the starting XI, and has exactly 4 members.
C5_Bench ==
    Returned =>
        /\ Members(bench) = squad \ Members(lineup)
        /\ NoRepeats(bench)
        /\ Len(bench) = 4

\* C6: in every report the bench lists the non-goalkeepers first, in
\* non-increasing order of adjusted points, and every goalkeeper after them.
C6_BenchOrder ==
    Returned =>
        \A j, k \in DOMAIN bench :
            j < k =>
                /\ pool[bench[j]].position = "GKP" => pool[bench[k]].position = "GKP"
                /\ (pool[bench[j]].position # "GKP" /\ pool[bench[k]].position # "GKP")
                      => adjusted[bench[j]] >= adjusted[bench[k]]

\* C6 witness: a report whose bench ends with a goalkeeper of more points
\* than the outfield player before him, the outfield players differing.
C6_Witness ==
    /\ Returned
    /\ Len(bench) >= 3
    /\ pool[bench[Len(bench)]].position = "GKP"
    /\ adjusted[bench[Len(bench)]] > adjusted[bench[Len(bench) - 1]]
    /\ adjusted[bench[1]] > adjusted[bench[2]]

\* C7: in every report captain and vice-captain are two distinct members of
\* the starting XI, and captain >= vice-captain >= every other starter in
\* adjusted points.
C7_Captaincy ==
    Returned =>
        /\ captain # vice_captain
        /\ captain \in Members(lineup)
        /\ vice_captain \in Members(lineup)
        /\ adjusted[captain] >= adjusted[vice_captain]
        /\ \A o \in Members(lineup) \ {captain, vice_captain} :
              adjusted[vice_captain] >= adjusted[o]

\* C7 witness: a report whose captain has strictly more points than the
\* vice-captain, who has strictly more than some other starter.
C7_Witness ==
    /\ Returned
    /\ adjusted[captain] > adjusted[vice_captain]
    /\ \E o \in Members(lineup) : adjusted[vice_captain] > adjusted[o]

\* The claims' notion of a feasible squad: 15 players in the 2/5/5/3 schema,
\* within the budget, at most 3 of a club and, for enabling, at least
\* min_cheap_players cheap players (cheap as the optimizer at hand has it).
CheapFor(p) ==
    IF impl = "app" THEN p.price <= CHEAP_PLAYER_THRESHOLDS[p.position]
    ELSE p.price <= cheap_player_price_threshold

IsFeasibleSquad(S) ==
    /\ S \subseteq Index(pool)
    /\ Cardinality(S) = 15
    /\ CountPos(pool, S, "GKP") = 2
    /\ CountPos(pool, S, "DEF") = 5
    /\ CountPos(pool, S, "MID") = 5
    /\ CountPos(pool, S, "FWD") = 3
    /\ SumOver(S, PriceOf(pool)) <= 1000
    /\ \A t \in Teams(pool) : Cardinality(TeamIdx(pool, S, t)) <= 3
    /\ strategy = "enabling" =>
          Cardinality({i \in S : CheapFor(pool[i])}) >= min_cheap_players

SomeFeasibleSquad == \E S \in SchemaSets(pool) : IsFeasibleSquad(S)

\* C8: if no 15-player subset of the pool satisfies budget, position counts,
\* the club limit and (for enabling) the cheap-player count, the optimizer
\* returns an error and no starting XI or bench: a report, a starting XI or
\* a bench is returned only if a feasible squad exists.
C8_InfeasibleIsError ==
    (Returned \/ lineup # <<>> \/ bench # <<>>) => SomeFeasibleSquad

\* The joint objective of a (squad, starting XI) pair, in thousandths: the
\* adjusted points of the starting XI minus lambda = 1.0 times the price (in
\* millions) of the squad members outside the starting XI.
JointObjective(S, X) ==
    SumOver(X, adjusted) - 100 * SumOver(S \ X, PriceOf(pool))

\* A formation-valid eleven: 1 GKP, 3-5 DEF, 2-5 MID, 1-3 FWD.
IsFormation(X) ==
    /\ Cardinality(X) = 11
    /\ CountPos(pool, X, "GKP") = 1
    /\ CountPos(pool, X, "DEF") \in 3..5
    /\ CountPos(pool, X, "MID") \in 2..5
    /\ CountPos(pool, X, "FWD") \in 1..3

IsBenchFirstEleven(X) ==
    /\ X \subseteq Index(pool) \ Members(bench)
    /\ IsFormation(X)
    /\ SumOver(X, PriceOf(pool)) + PriceOfSeq(bench) <= 1000
    /\ \A t \in Teams(pool) :
          Cardinality(TeamIdx(pool, X \cup Members(bench), t)) <= 3

OwnershipRead(i) ==
    IF pool[i].ownership_percentage # NaN THEN pool[i].ownership_percentage
    ELSE IF impl = "app" THEN 500 ELSE 1000

\* The strategy's value of a player, times 10000.
StrategyValue(i) ==
    IF strategy = "defensive"
    THEN IF pool[i].position = "GKP" \/ pool[i].position = "DEF"
         THEN adjusted[i] * defensive_weight ELSE adjusted[i] * 10
    ELSE IF strategy = "offensive"
    THEN IF pool[i].position = "MID" \/ pool[i].position = "FWD"
         THEN adjusted[i] * offensive_weight ELSE adjusted[i] * 10
    ELSE IF strategy = "differential"
    THEN adjusted[i] * 10 + differential_factor * (1000 - OwnershipRead(i)) * 10
    ELSE adjusted[i] * 10

StrategyObjective(S) == SumOver(S, [i \in Index(pool) |-> StrategyValue(i)])

SquadObjectiveStrategies == {"best_15", "defensive", "offensive", "differential"}

\* C10: for best_15, defensive, offensive and differential the returned
\* squad is feasible and no feasible squad has a larger value of the
\* strategy's objective.
C10_SquadOptimal ==
    (Returned /\ strategy \in SquadObjectiveStrategies) =>
        /\ Members(ReportedSquad) = squad
        /\ IsFeasibleSquad(squad)
        /\ \A S \in SchemaSets(pool) :
              IsFeasibleSquad(S) => StrategyObjective(squad) >= StrategyObjective(S)

\* C10 witness: a defensive, offensive or differential report whose squad
\* is not a squad of most adjusted points: the strategy's weighting decides.
C10_Witness ==
    /\ Returned
    /\ strategy \in {"defensive", "offensive", "differential"}
    /\ \E S \in SchemaSets(pool) :
          /\ IsFeasibleSquad(S)
          /\ SumOver(S, adjusted) > SumOver(squad, adjusted)
          /\ StrategyObjective(S) < StrategyObjective(squad)

\* C11: for every strategy but best_11_cheap_bench the returned starting XI
\* is a formation-valid eleven of the returned squad, and no formation-valid
\* eleven of that squad has a strictly larger sum of adjusted points.
C11_BestEleven ==
    (Returned /\ strategy # "best_11_cheap_bench") =>
        /\ Members(lineup) \subseteq squad
        /\ IsFormation(Members(lineup))
        /\ \A X \in FormationSets(pool, squad) :
              (X \subseteq squad /\ IsFormation(X)) =>
                  SumOver(X, adjusted) <= SumOver(Members(lineup), adjusted)

\* C11 witness: such a report where the formation decides: a benched player
\* has strictly more points than a starter, and another formation-valid
\* eleven of the squad has strictly fewer points than the returned one.
C11_Witness ==
    /\ Returned
    /\ strategy # "best_11_cheap_bench"
    /\ \E b \in squad \ Members(lineup) : \E x \in Members(lineup) :
          adjusted[b] > adjusted[x]
    /\ \E X \in FormationSets(pool, squad) :
          SumOver(X, adjusted) < SumOver(Members(lineup), adjusted)

\* Players priced at or below the cheap threshold of their own position
\* (GKP 4.0, DEF 4.0, MID 4.5, FWD 4.5).
PositionCheap(S) ==
    {i \in S : \/ pool[i].position \in {"GKP", "DEF"} /\ pool[i].price <= 40
               \/ pool[i].position \in {"MID", "FWD"} /\ pool[i].price <= 45}

\* A squad within the rules every strategy shares: 2/5/5/3, the budget and
\* at most 3 players of a club.
IsBasicSquad(S) ==
    /\ Cardinality(S) = 15
    /\ CountPos(pool, S, "GKP") = 2
    /\ CountPos(pool, S, "DEF") = 5
    /\ CountPos(pool, S, "MID") = 5
    /\ CountPos(pool, S, "FWD") = 3
    /\ SumOver(S, PriceOf(pool)) <= 1000
    /\ \A t \in Teams(pool) : Cardinality(TeamIdx(pool, S, t)) <= 3

\* C12: with enabling every returned squad has at least min_cheap_players
\* players at or below their position's cheap threshold; with any other
\* strategy the cheap-player count is not imposed: the squad program is
\* solved over all squads within budget, quotas and club limit.
C12_CheapPlayers ==
    /\ (Returned /\ strategy = "enabling") =>
          Cardinality(PositionCheap(squad)) >= min_cheap_players
    /\ (strategy # "enabling" /\ ~CheapBenchPath) =>
          /\ (pc = "error" /\ error = "squad_not_optimal") =>
                ~ \E S \in SchemaSets(pool) : IsBasicSquad(S)
          /\ pc \in {"squad", "xi", "done"} =>
                \A S \in SchemaSets(pool) :
                    IsBasicSquad(S) => StrategyObjective(squad) >= StrategyObjective(S)

Unavailable(i) == pool[i].status \in {"i", "s"}

\* The returned squad with player i replaced by player a.
Swapped(i, a) == (Members(ReportedSquad) \ {i}) \cup {a}

\* C13: an injured or suspended player is never in the returned squad when
\* a player of the same position who is neither could take the slot with the
\* squad still within the budget and the club limit.
C13_NoUnavailablePlayer ==
    Returned =>
        \A i \in Members(ReportedSquad) :
            Unavailable(i) =>
                ~ \E a \in Index(pool) \ Members(ReportedSquad) :
                      /\ ~Unavailable(a)
                      /\ pool[a].position = pool[i].position
                      /\ SumOver(Swapped(i, a), PriceOf(pool)) <= 1000
                      /\ \A t \in Teams(pool) :
                            Cardinality(TeamIdx(pool, Swapped(i, a), t)) <= 3

\* The raises of expected points tried, in tenths of a point.
Raises == {5, 30}

\* The objective value of the squad just chosen.
ChosenValue ==
    SumOver(squad,
            IF impl = "app"
            THEN ObjectiveFunction(pool, adjusted, strategy, defensive_weight,
                                   offensive_weight, differential_factor)
            ELSE RootObjectiveFunction(pool, adjusted, strategy, defensive_weight,
                                       offensive_weight, differential_factor))

\* C15: once the squad program is solved, raising one player's expected
\* points (everything else fixed) and solving again gives an optimal
\* objective value that is not below the one obtained.
C15_Monotone ==
    pc = "squad" =>
        \A i \in Index(pool) : \A d \in Raises :
            pool[i].expected_points # NaN =>
                LET values == SquadValues(RaisedPool(pool, i, d))
                IN  values # {} /\ MaxOf(values) >= ChosenValue

\* C15 witness: a solved squad program where raising a player outside the
\* chosen squad strictly raises the optimum, and raising an injured or
\* suspended player leaves it as it is.
C15_Witness ==
    /\ pc = "squad"
    /\ \E i \in Index(pool) \ squad : \E d \in Raises :
          /\ pool[i].expected_points # NaN
          /\ MaxOf(SquadValues(RaisedPool(pool, i, d))) > ChosenValue
    /\ \E i \in Index(pool) : \E d \in Raises :
          /\ pool[i].status \in {"i", "s"}
          /\ pool[i].expected_points # NaN
          /\ MaxOf(SquadValues(RaisedPool(pool, i, d))) = ChosenValue

\* The pool has exactly 2 GKP, 5 DEF, 5 MID and 3 FWD.
ExactPool ==
    /\ Len(pool) = 15
    /\ CountPos(pool, Index(pool), "GKP") = 2
    /\ CountPos(pool, Index(pool), "DEF") = 5
    /\ CountPos(pool, Index(pool), "MID") = 5
    /\ CountPos(pool, Index(pool), "FWD") = 3

PoolPrice == SumOver(Index(pool), PriceOf(pool))

\* X holds 11 players of the pool with the highest adjusted points.
HighestEleven(X) ==
    /\ X \subseteq Index(pool)
    /\ Cardinality(X) = 11
    /\ \A x \in X : \A y \in Index(pool) \ X : adjusted[x] >= adjusted[y]

\* C16 as stated: on a pool of exactly 2/5/5/3 priced below the budget,
\* best_15 ends in a report whose squad is the whole pool and whose starting
\* XI is formation-valid and holds the 11 players of highest adjusted points.
C16_FullPoolTopEleven ==
    (ExactPool /\ PoolPrice < 1000 /\ strategy = "best_15") =>
        /\ pc # "error"
        /\ Returned =>
              /\ squad = Index(pool)
              /\ Members(ReportedSquad) = Index(pool)
              /\ IsFormation(Members(lineup))
              /\ HighestEleven(Members(lineup))

\* C16 (amended): on a pool of exactly 2/5/5/3 priced below the budget and
\* with at most 3 players of any club, best_15 ends in a report whose squad
\* is the whole pool and whose starting XI is a formation-valid eleven of
\* the most adjusted points; it holds the 11 players of highest adjusted
\* points whenever some such eleven is formation-valid.
C16_FullPoolBestEleven ==
    (/\ ExactPool
     /\ PoolPrice < 1000
     /\ \A t \in Teams(pool) : Cardinality(TeamIdx(pool, Index(pool), t)) <= 3
     /\ strategy = "best_15") =>
        /\ pc # "error"
        /\ Returned =>
              /\ squad = Index(pool)
              /\ Members(ReportedSquad) = Index(pool)
              /\ IsFormation(Members(lineup))
              /\ \A X \in FormationSets(pool, Index(pool)) :
                    /\ SumOver(X, adjusted) <= SumOver(Members(lineup), adjusted)
                    /\ HighestEleven(X) => HighestEleven(Members(lineup))

\* C16 witness: a best_15 report on such a pool, within the club limit,
\* whose starting XI holds the 11 players of highest adjusted points.
C16_Witness ==
    /\ ExactPool
    /\ PoolPrice < 1000
    /\ strategy = "best_15"
    /\ Returned
    /\ squad = Index(pool)
    /\ HighestEleven(Members(lineup))

\* C16 witness of the other case: a best_15 report on such a pool in which
\* no formation-valid eleven holds the 11 players of highest adjusted points.
C16_NoTopEleven ==
    /\ ExactPool
    /\ PoolPrice < 1000
    /\ strategy = "best_15"
    /\ Returned
    /\ ~HighestEleven(Members(lineup))

(***************************************************************************)
(* The differential strategy on a pair of players that differ in           *)
(* ownership only                                                          *)
(***************************************************************************)
\* The later player of the pool is owned by 5%, and an earlier player who
\* is owned by 50% equals it in every other column.
Twin == Len(pool)
Others ==
    {i \in Index(pool) \ {Twin} :
        /\ pool[i].ownership_percentage = 500
        /\ pool[Twin] = [pool[i] EXCEPT !.ownership_percentage = 50]}

\* The coefficient the squad program of the optimizer at hand gives player i.
SquadCoef(i) ==
    IF impl = "app"
    THEN ObjectiveCoef(pool, adjusted, strategy, defensive_weight,
                       offensive_weight, differential_factor, i)
    ELSE RootObjectiveCoef(pool, adjusted, strategy, defensive_weight,
                           offensive_weight, differential_factor, i)

\* The 5%-owned player has the strictly higher coefficient, and a squad that
\* holds one of the two holds the 5%-owned one.
Preferred ==
    \A i \in Others :
        /\ SquadCoef(Twin) > SquadCoef(i)
        /\ (i \in squad) => (Twin \in squad)

\* C17 (as stated): with strategy differential and any differential_factor in
\* [0.0, 0.2], of two players equal but for ownership 5% and 50% the 5%-owned
\* one has the strictly higher objective coefficient and is the one in the
\* squad when only one of them is.
C17_LowOwnershipPreferredAnyFactor ==
    (strategy = "differential" /\ pool[Twin].ownership_percentage = 50
        /\ pc \in {"squad", "xi", "done"}) => Preferred

\* C17 (amended): the same for every differential_factor above 0.0.
C17_LowOwnershipPreferred ==
    (strategy = "differential" /\ pool[Twin].ownership_percentage = 50
        /\ differential_factor > 0
        /\ pc \in {"squad", "xi", "done"}) => Preferred

\* A squad of the default factor holds the 5%-owned player and not the
\* 50%-owned one, though the squad with the two exchanged meets every
\* constraint as well.
C17_Witness ==
    /\ strategy = "differential"
    /\ differential_factor = DefaultFactor
    /\ pc = "squad"
    /\ Twin \in squad
    /\ \E i \in Others :
          /\ i \notin squad
          /\ IsFeasibleSquad((squad \ {Twin}) \cup {i})

\* With differential_factor 0.0 the two coefficients are equal and the squad
\* holds the 50%-owned player alone.
C17_ZeroFactor ==
    /\ strategy = "differential"
    /\ differential_factor = 0
    /\ pc = "squad"
    /\ Twin \notin squad
    /\ \E i \in Others : i \in squad /\ SquadCoef(Twin) = SquadCoef(i)

(***************************************************************************)
(* Error results                                                           *)
(***************************************************************************)
\* What the message of the error result names: the kind of failure, and
\* the solver status, position or strategy formatted into it.
MessageNames ==
    CASE error = "insufficient_players" -> {"players", "position"}
      [] error = "bench_position" -> {"bench", "position"}
      [] error = "squad_not_optimal" ->
            IF impl = "app" THEN {"squad", "status"}
            ELSE {"squad", "strategy", "status"}
      [] error = "xi_not_optimal" -> {"starting_xi", "status"}
      [] error = "best11_not_optimal" -> {"status"}
      [] OTHER -> {}

\* Every squad of the schema costs more than the budget.
OverBudget ==
    \A S \in SchemaSets(pool) : SumOver(S, PriceOf(pool)) > BUDGET

\* The pool has fewer than min_cheap_players players at or under the cheap
\* threshold of their position.
FewCheapCandidates ==
    Cardinality(PositionCheap(Index(pool))) < min_cheap_players

\* C18: the error of an infeasible squad program names the budget when
\* every squad of the schema costs more than the budget, and names the
\* cheap-player constraint when strategy enabling finds fewer than
\* min_cheap_players cheap candidates.
C18_CauseNamed ==
    (pc = "error" /\ error = "squad_not_optimal") =>
        /\ OverBudget => "budget" \in MessageNames
        /\ (strategy = "enabling" /\ FewCheapCandidates) =>
              "cheap_players" \in MessageNames

(***************************************************************************)
(* The adjusted value of a player                                          *)
(***************************************************************************)
\* The rule, in thousandths of a point: 0 for a missing raw value or an
\* injured or suspended player, raw times play probability / 100 for a play
\* probability under 100, and the raw value otherwise.
RuleValue(p) ==
    IF p.expected_points = NaN THEN 0
    ELSE IF p.status = "i" \/ p.status = "s" THEN 0
    ELSE IF p.chance_of_playing_this_round # NaN
              /\ p.chance_of_playing_this_round < 100
         THEN p.expected_points * p.chance_of_playing_this_round
         ELSE p.expected_points * 100

\* C19: once the scores are adjusted, every player's adjusted value is 0 if
\* the player is injured or suspended, otherwise raw expected points times
\* play probability / 100 when the play probability is under 100, otherwise
\* the raw expected points; a missing raw value gives 0 in each case.
C19_ScoreAdjuster ==
    pc # "start" =>
        \A i \in Index(pool) : adjusted[i] = RuleValue(pool[i])

\* Adjusted scores of a data file whose last player is doubtful at 75% with
\* no raw value, among players adjusted to their raw values.
C19_Witness ==
    /\ pc # "start"
    /\ pool[Len(pool)].expected_points = NaN
    /\ pool[Len(pool)].status = "d"
    /\ pool[Len(pool)].chance_of_playing_this_round = 75
    /\ adjusted[Len(pool)] = 0
    /\ adjusted[1] = pool[1].expected_points * 100

(***************************************************************************)
(* The shape of the returned object                                        *)
(***************************************************************************)
\* The keys of the object run_fpl_optimizer returns: a failure returns
\* {"error": ...}, a success the formatted lists and the summary.
ResultKeys ==
    CASE pc = "error" -> {"error"}
      [] pc = "done" ->
            IF impl = "app" THEN {"optimal_starting_xi", "bench", "summary"}
            ELSE {"optimal_squad_15", "optimal_starting_xi", "bench", "summary"}
      [] OTHER -> {}

\* C20: every failure is returned in the shape of a success: the object has
\* an error field and the lineup, bench and summary keys.
C20_UniformShape ==
    pc = "error" =>
        {"error", "optimal_starting_xi", "bench", "summary"} \subseteq ResultKeys

(***************************************************************************)
(* Strategy names and tuning values as given                               *)
(***************************************************************************)
\* C21: a request whose strategy name is none of the six is rejected before
\* the data is loaded or a program is solved: its scores are never
\* adjusted, no squad is chosen and no report is returned.
C21_UnknownStrategyRejected ==
    strategy \notin Strategies =>
        /\ pc \in {"start", "error"}
        /\ adjusted = <<>>
        /\ squad = {}

\* A report returned for a strategy name that is none of the six: the squad
\* is the one of most adjusted points, as for best_15.
C21_DefaultObjective ==
    /\ strategy \notin Strategies
    /\ pc = "done"
    /\ \A S \in SchemaSets(pool) :
          IsBasicSquad(S) =>
              SumOver(squad, adjusted) >= SumOver(S, adjusted)

\* The tuning values are within their ranges.
InRange ==
    /\ defensive_weight >= 10 /\ defensive_weight <= 30
    /\ offensive_weight >= 10 /\ offensive_weight <= 30
    /\ differential_factor >= 0 /\ differential_factor <= 20
    /\ min_cheap_players >= 1 /\ min_cheap_players <= 8

\* The optimal squads of the squad program posed with every tuning value
\* at its default.
DefaultSquads ==
    LET feasible == IF impl = "app"
                    THEN FeasibleSquads(pool, strategy, DefaultMinCheap)
                    ELSE RootFeasibleSquads(pool, strategy, DefaultMinCheap)
        coef == IF impl = "app"
                THEN ObjectiveFunction(pool, adjusted, strategy, DefaultWeight,
                                       DefaultWeight, DefaultFactor)
                ELSE RootObjectiveFunction(pool, adjusted, strategy,
                                           DefaultWeight, DefaultWeight,
                                           DefaultFactor)
    IN  IF feasible = {} THEN {} ELSE Optimal(feasible, coef)

\* C22: a request with a tuning value outside its range is either rejected
\* or solved with the defaults: a squad, once chosen, is an optimal squad of
\* the program with the default values, and the squad program is reported
\* infeasible only if it is infeasible with the default values.
C22_OutOfRangeNotUsed ==
    ~InRange =>
        /\ pc \in {"squad", "xi", "done"} => squad \in DefaultSquads
        /\ (pc = "error" /\ error = "squad_not_optimal") => DefaultSquads = {}

(***************************************************************************)
(* The stages of a request                                                 *)
(***************************************************************************)
\* The stage a request is at: validated data (1), squad program solved or,
\* for best_11_cheap_bench, bench players fixed (2), starting XI solved (3),
\* report assembled (4); a failure (5) ends the request.
Stage ==
    CASE pc = "start" -> 0
      [] pc = "prepared" -> 1
      [] pc \in {"squad", "bench"} -> 2
      [] pc = "xi" -> 3
      [] pc = "done" -> 4
      [] OTHER -> 5

Ended == pc \in {"done", "error"}

\* C23: every step of a request leaves a stage that is neither the report
\* nor a failure, with no error recorded, and enters either the next stage
\* or a failure (so no stage runs twice, none runs after a failure, and a
\* request takes at most five steps); a request at its end is either a
\* complete report without an error or an error without a report.
C23_Pipeline ==
    /\ [][/\ ~Ended
          /\ error = ""
          /\ \/ pc' = "error" /\ error' # ""
             \/ pc' # "error" /\ error' = "" /\ Stage' = Stage + 1]_vars
    /\ [](pc = "done" => error = "" /\ Len(lineup) = 11 /\ bench # <<>>)
    /\ [](pc = "error" => error # "" /\ lineup = <<>> /\ bench = <<>>)

\* A report assembled after the squad and the starting XI were solved.
C23_Witness ==
    /\ pc = "done"
    /\ error = ""
    /\ Cardinality(squad) = 15
    /\ Cardinality(starting_xi) = 11
    /\ Len(lineup) = 11

OwnSquads ==
    LET adj == AdjustAll(pool)
        feasible == IF impl = "app"
                    THEN FeasibleSquads(pool, strategy, min_cheap_players)
                    ELSE RootFeasibleSquads(pool, strategy, min_cheap_players)
        coef == IF impl = "app"
                THEN ObjectiveFunction(pool, adj, strategy, defensive_weight,
                                       offensive_weight, differential_factor)
                ELSE RootObjectiveFunction(pool, adj, strategy, defensive_weight,
                                           offensive_weight, differential_factor)
    IN  IF feasible = {} THEN {} ELSE Optimal(feasible, coef)

\* The report is one the running request returns when it runs alone.
AloneReport ==
    LET adj == AdjustAll(pool)
    IN  /\ adjusted = adj
        /\ IF CheapBenchPath
           THEN /\ cheapest_bench \in CheapestBenches(pool)
                /\ starting_xi \in Optimal(FeasibleBest11(pool, cheapest_bench), adj)
                /\ squad = starting_xi \cup cheapest_bench
           ELSE /\ squad \in OwnSquads
                /\ starting_xi \in Optimal(FormationSets(pool, squad), adj)
        /\ lineup = SortStartingXI(pool, adj, starting_xi)
        /\ bench \in (IF impl = "app" THEN FinalBenches(pool, adj, BenchRows)
                      ELSE RootFinalBenches(pool, adj, squad \ starting_xi))
        /\ <<captain, vice_captain>> \in Captaincies(adj, starting_xi)
        /\ squad_total_cost = SumOver(squad, PriceOf(pool))

\* The error is the one the running request returns when it runs alone.
AloneError ==
    CASE error = "insufficient_players" ->
            impl = "app" /\ ShortPosition(pool) # ""
      [] error = "squad_not_optimal" -> ~CheapBenchPath /\ OwnSquads = {}
      [] error = "bench_position" ->
            /\ CheapBenchPath
            /\ \E pos \in PositionSet :
                  CountPos(pool, Index(pool), pos) < bench_positions[pos]
      [] error = "best11_not_optimal" ->
            /\ CheapBenchPath
            /\ cheapest_bench \in CheapestBenches(pool)
            /\ FeasibleBest11(pool, cheapest_bench) = {}
      [] OTHER -> FALSE

\* C25: of two requests of different strategies on one data file, under
\* any interleaving of their steps, each returns a report or an error that it
\* returns when run alone; a step of the running request changes neither the
\* data file nor anything of the request that waits.
C25_Isolation ==
    /\ [][/\ pool' = pool
          /\ other'.id = other.id => other' = other]_vars
    /\ [](pc = "done" => AloneReport)
    /\ [](pc = "error" => AloneError)

\* Both requests have returned their reports, the second one having taken
\* all its steps between the squad solve and the starting-XI solve of the
\* first.
C25_Witness ==
    /\ other # Alone
    /\ pc = "done"
    /\ other.pc = "done"
    /\ other.strategy # strategy
    /\ other.squad # squad
    /\ AloneReport

(***************************************************************************)
(* The order of the starting XI                                            *)
(***************************************************************************)
\* The pairs of positions of which the first is listed before the second.
ListedBefore ==
    {<<"GKP", "DEF">>, <<"GKP", "MID">>, <<"GKP", "FWD">>,
     <<"DEF", "MID">>, <<"DEF", "FWD">>, <<"MID", "FWD">>}

\* C26: in every report the starting XI lists the goalkeeper, then the
\* defenders, the midfielders and the forwards, and the players of one
\* position in non-increasing order of adjusted points.
C26_LineupOrder ==
    Returned =>
        \A j, k \in DOMAIN lineup :
            j < k =>
                \/ <<pool[lineup[j]].position, pool[lineup[k]].position>>
                      \in ListedBefore
                \/ /\ pool[lineup[j]].position = pool[lineup[k]].position
                   /\ adjusted[lineup[j]] >= adjusted[lineup[k]]

\* A report whose starting XI ends with a forward of more points than the
\* goalkeeper and the defenders listed before him and has defenders of
\* different points.
C26_Witness ==
    /\ Returned
    /\ Len(lineup) = 11
    /\ pool[lineup[11]].position = "FWD"
    /\ pool[lineup[1]].position = "GKP"
    /\ \A k \in 1..3 : adjusted[lineup[11]] > adjusted[lineup[k]]
    /\ pool[lineup[2]].position = "DEF"
    /\ pool[lineup[3]].position = "DEF"
    /\ adjusted[lineup[2]] > adjusted[lineup[3]]

(***************************************************************************)
(* C27: a data file that lacks one of the nine columns is answered by       *)
(* run_fpl_optimizer with an error result before any solve: the call        *)
(* neither ends in an exception nor goes on to the squad program or a       *)
(* report.                                                                  *)
(***************************************************************************)
C27_IncompleteRejected ==
    (impl = "app" /\ columns # Columns) => pc \in {"start", "error"}

(***************************************************************************)
(* C28: on the two-step path the starting-XI program always has a          *)
(* solution.  Every set of 2 GKP, 5 DEF, 5 MID and 3 FWD of the data file  *)
(* has eleven players within the formation bounds; the squad the first     *)
(* step returns is such a set, and no request ends in the error of the     *)
(* starting-XI program.                                                    *)
(***************************************************************************)
TwoStepPath == ~CheapBenchPath

C28_LineupFeasible ==
    /\ error # "xi_not_optimal"
    /\ (pc = "prepared" /\ impl = "app" /\ strategy = "best_15"
           /\ Len(pool) <= MinPool + 3)
         => \A S \in SchemaSets(pool) : FormationSets(pool, S) # {}
    /\ (pc = "squad" /\ TwoStepPath)
         => /\ \A pos \in PositionSet : CountPos(pool, squad, pos) = SQUAD_POSITIONS[pos]
            /\ FormationSets(pool, squad) # {}

\* The second step has returned a starting XI of a squad whose data file
\* has more than one set of the schema: all five defenders start, the upper
\* bound, and no forward more than two.
C28_Witness ==
    /\ pc = "xi"
    /\ TwoStepPath
    /\ Cardinality(SchemaSets(pool)) > 1
    /\ Cardinality(starting_xi) = TOTAL_STARTING_XI_PLAYERS
    /\ CountPos(pool, starting_xi, "DEF") = STARTING_XI_POS_MAX["DEF"]
    /\ CountPos(pool, starting_xi, "FWD") = 2

(***************************************************************************)
(* C29: on the two-step path, once both programs are solved the players    *)
(* left out of the starting XI are one goalkeeper and three outfield       *)
(* players.  So the older optimizer never takes its branch for an          *)
(* unexpected bench, and the reported bench is those four players, the     *)
(* goalkeeper last.                                                        *)
(***************************************************************************)
C29_BenchStructure ==
    /\ (pc \in {"xi", "done"} /\ TwoStepPath)
         => LET B == squad \ starting_xi
            IN  /\ Cardinality(PosIdx(pool, B, "GKP")) = 1
                /\ Cardinality(B \ PosIdx(pool, B, "GKP")) = 3
    /\ (pc = "done" /\ TwoStepPath)
         => /\ Len(bench) = 4
            /\ {bench[k] : k \in 1..4} = squad \ starting_xi
            /\ pool[bench[4]].position = "GKP"
            /\ bench \in FinalBenches(pool, adjusted, squad \ starting_xi)

\* A report of the older optimizer whose bench the branch for an unexpected
\* bench would have ordered differently: a forward or midfielder is listed
\* before a defender.
C29_Witness ==
    /\ pc = "done"
    /\ impl = "root"
    /\ Len(bench) = 4
    /\ pool[bench[4]].position = "GKP"
    /\ \E k \in 1..2 :
          BenchPosOrder(pool[bench[k]].position) > BenchPosOrder(pool[bench[k + 1]].position)

====
